---- MODULE Spec2Model ----
(***************************************************************************)
(* Model of src/value/tagged.rs: Tag, TaggedValue, the untagging helpers,  *)
(* the Serialize / Deserialize impls of TaggedValue and the owned and      *)
(* borrowed EnumAccess / VariantAccess adapters.                           *)
(*                                                                         *)
(* Strings are sequences of byte values, so that strip_prefix, the         *)
(* lexicographic order of str and the bytes fed to a Hasher are computed   *)
(* rather than assumed.                                                    *)
(***************************************************************************)
EXTENDS Integers, Sequences, FiniteSets, TLC

\* ------------------------------------------------------------------ bounds
MaxLen == 3

MaxDepth == 2

\* --------------------------------------------------------------- alphabet
\* '!' (0x21), the marker character
Bang == 33

\* 'T' (0x54), the first character of the payload "Thing"
LetterT == 84

Chars == {Bang, LetterT}

\* every string of at most MaxLen characters
Strings == UNION {[1..n -> Chars] : n \in 0..MaxLen}

\* ---------------------------------------------------------- Result/Option
Ok(v) == [ok |-> TRUE, val |-> v]

Err(e) == [ok |-> FALSE, err |-> e]

Some(v) == [some |-> TRUE, val |-> v]

None == [some |-> FALSE]

\* -------------------------------------------------------------------- Tag
\* Tag::new: the string is stored as given
Tag_new(string) == [string |-> string]

\* str::strip_prefix(char): Some(rest) when the first character is the prefix
strip_prefix(str, prefix) ==
    IF Len(str) > 0 /\ str[1] = prefix THEN Some(SubSeq(str, 2, Len(str))) ELSE None

unwrap_or(opt, default) == IF opt.some THEN opt.val ELSE default

\* every leading '!' removed
RECURSIVE strip_all(_)
strip_all(str) ==
    IF Len(str) > 0 /\ str[1] = Bang THEN strip_all(Tail(str)) ELSE str

\* nobang, had it stripped nothing
nobang_identity(maybe_banged) == maybe_banged

\* nobang, had it stripped every leading '!'
nobang_all(maybe_banged) == strip_all(maybe_banged)

\* nobang: strip_prefix('!').unwrap_or(maybe_banged)
nobang(maybe_banged) == unwrap_or(strip_prefix(maybe_banged, Bang), maybe_banged)

\* Ord for str: lexicographic comparison of the bytes
RECURSIVE str_cmp(_, _)
str_cmp(x, y) ==
    IF Len(x) = 0 /\ Len(y) = 0 THEN "Equal"
    ELSE IF Len(x) = 0 THEN "Less"
    ELSE IF Len(y) = 0 THEN "Greater"
    ELSE IF x[1] < y[1] THEN "Less"
    ELSE IF x[1] > y[1] THEN "Greater"
    ELSE str_cmp(Tail(x), Tail(y))

\* Hash for str: the bytes, then the 0xff terminator
str_hash(x) == x \o <<255>>

\* eq, had it compared the stored strings as they are
Tag_eq_raw(self, other) == self.string = other.string

\* PartialEq for Tag
Tag_eq(self, other) == nobang(self.string) = nobang(other.string)

\* PartialEq<T: AsRef<str>> for Tag
Tag_eq_str(self, other) == nobang(self.string) = nobang(other)

\* cmp, had it compared the stored strings as they are
Tag_cmp_raw(self, other) == str_cmp(self.string, other.string)

\* Ord for Tag
Tag_cmp(self, other) == str_cmp(nobang(self.string), nobang(other.string))

\* PartialOrd for Tag
Tag_partial_cmp(self, other) ==
    Some(str_cmp(nobang(self.string), nobang(other.string)))

\* Hash for Tag: what the hasher is fed
Tag_hash(self) == str_hash(nobang(self.string))

\* fmt, had it written the stored string as it is
Tag_fmt_raw(self) == self.string

\* Debug for Tag: write!(formatter, "!{}", nobang(&self.string))
Tag_fmt(self) == <<Bang>> \o nobang(self.string)

\* ------------------------------------------------------------------ Value
\* the shapes of the generic value the module distinguishes
Str(bytes) == [kind |-> "String", str |-> bytes]

Sequence(items) == [kind |-> "Sequence", seq |-> items]

Mapping(entries) == [kind |-> "Mapping", map |-> entries]

Tagged(tag, value) == [kind |-> "Tagged", tag |-> tag, value |-> value]

\* "x", ["first"], {"k": "v"}: the payloads of the TaggedValue example
ScalarX == Str(<<120>>)

SeqFirst == Sequence(<<Str(<<102, 105, 114, 115, 116>>)>>)

MapKV == Mapping(<< <<Str(<<107>>), Str(<<118>>)>> >>)

BaseValues == {ScalarX, SeqFirst, MapKV}

\* the tag of the nested layers, "!T"
LayerTag == Tag_new(<<Bang, LetterT>>)

\* base wrapped in n TaggedValue layers, built bottom-up
RECURSIVE Wrap(_, _)
Wrap(base, n) ==
    IF n = 0 THEN base ELSE Tagged(LayerTag, Wrap(base, n - 1))

Values == {Wrap(b, n) : b \in BaseValues, n \in 0..MaxDepth}

\* number of TaggedValue layers around the base of v
RECURSIVE NestDepth(_)
NestDepth(v) == IF v.kind = "Tagged" THEN 1 + NestDepth(v.value) ELSE 0

\* the value a reference that went `at` layers into root points to
RECURSIVE Deref(_, _)
Deref(root, at) == IF at = 0 THEN root ELSE Deref(root.value, at - 1)

\* TaggedValue { tag, value }
TaggedValue(tag, value) == [tag |-> tag, value |-> value]

\* derived PartialEq of TaggedValue: tag then value
TaggedValue_eq(self, other) ==
    Tag_eq(self.tag, other.tag) /\ self.value = other.value

\* Value::unexpected: the shape description carried by invalid_type
unexpected(v) ==
    CASE v.kind = "String" -> "Str"
      [] v.kind = "Sequence" -> "Seq"
      [] v.kind = "Mapping" -> "Map"
      [] v.kind = "Tagged" -> "Enum"

invalid_type(unexp, exp) ==
    Err([kind |-> "invalid_type", unexpected |-> unexp, expected |-> exp])

\* any other error, raised by the consumer, the sink or a foreign deserializer
custom(msg) == Err([kind |-> "custom", msg |-> msg])

\* ------------------------------------------------- consumer-side seeds
\* What a DeserializeSeed of the consumer does with the deserializer it is
\* handed (seed.deserialize(de)):
\*   "echo"    succeeds with a record of the deserializer it was handed
\*   "String"  PhantomData<String>: takes a string
\*   "Value"   PhantomData<Value>: takes any value as it is
\*   "reject"  fails
Seeds == {"echo", "String", "Value", "reject"}

IsStrDeserializer(de) == de.de \in {"StrDeserializer", "BorrowedStrDeserializer"}

seed_deserialize(seed, de) ==
    CASE seed = "reject" -> custom("seed")
      [] seed = "echo" -> Ok(de)
      [] seed = "String" ->
            IF IsStrDeserializer(de) THEN Ok(de.str)
            ELSE IF de.value.kind = "String" THEN Ok(de.value.str)
            ELSE invalid_type(unexpected(de.value), "a string")
      [] seed = "Value" ->
            IF IsStrDeserializer(de) THEN Ok(Str(de.str)) ELSE Ok(de.value)

\* --------------------------------------- EnumAccess / VariantAccess (owned)
\* variant_seed, had it handed the seed the stored string as it is
variant_seed_raw(self, seed) ==
    LET tag == [de |-> "StrDeserializer", str |-> self.tag.string]
        value == seed_deserialize(seed, tag)
    IN  IF ~value.ok THEN value
        ELSE Ok(<<value.val, [impl |-> "Value", value |-> self.value]>>)

\* EnumAccess for TaggedValue
variant_seed(self, seed) ==
    LET tag == [de |-> "StrDeserializer", str |-> nobang(self.tag.string)]
        value == seed_deserialize(seed, tag)
    IN  IF ~value.ok THEN value
        ELSE Ok(<<value.val, [impl |-> "Value", value |-> self.value]>>)

\* VariantAccess for Value
newtype_variant_seed(self, seed) ==
    seed_deserialize(seed, [de |-> "Value", value |-> self])

\* the call handed on to a sequence / mapping deserializer adapter
Delegated(adapter, data) ==
    [delegated |-> TRUE, to |-> adapter, data |-> data]

Failed(error) == [delegated |-> FALSE, result |-> error]

\* tuple_variant, had it untagged the value before matching on it
tuple_variant_untagging(self, len) ==
    LET base == Deref(self, NestDepth(self))
    IN  IF base.kind = "Sequence" THEN Delegated("SeqDeserializer", base.seq)
        ELSE Failed(invalid_type(unexpected(self), "tuple variant"))

\* VariantAccess for Value::tuple_variant
tuple_variant(self, len) ==
    IF self.kind = "Sequence" THEN Delegated("SeqDeserializer", self.seq)
    ELSE Failed(invalid_type(unexpected(self), "tuple variant"))

struct_variant(self, fields) ==
    IF self.kind = "Mapping" THEN Delegated("MapDeserializer", self.map)
    ELSE Failed(invalid_type(unexpected(self), "struct variant"))

\* ------------------------------------ EnumAccess / VariantAccess (borrowed)
\* EnumAccess for &TaggedValue
variant_seed_ref(self, seed) ==
    LET tag == [de |-> "BorrowedStrDeserializer", str |-> nobang(self.tag.string)]
        value == seed_deserialize(seed, tag)
    IN  IF ~value.ok THEN value
        ELSE Ok(<<value.val, [impl |-> "&Value", value |-> self.value]>>)

\* VariantAccess for &Value
newtype_variant_seed_ref(self, seed) ==
    seed_deserialize(seed, [de |-> "&Value", value |-> self])

tuple_variant_ref(self, len) ==
    IF self.kind = "Sequence" THEN Delegated("SeqRefDeserializer", self.seq)
    ELSE Failed(invalid_type(unexpected(self), "tuple variant"))

struct_variant_ref(self, fields) ==
    IF self.kind = "Mapping" THEN Delegated("MapRefDeserializer", self.map)
    ELSE Failed(invalid_type(unexpected(self), "struct variant"))

\* -------------------------------------------------------------- Serialize
\* where the sink (or the serialization of the inner value) may fail
FailPoints == {"none", "serialize_map", "serialize_entry", "end"}

\* serialize, had it written the stored tag string behind the marker
serialize_raw(self, fail) ==
    LET open == [call |-> "serialize_map", len |-> Some(1)]
        entry == [call |-> "serialize_entry",
                  key |-> <<Bang>> \o self.tag.string,
                  value |-> self.value]
        end == [call |-> "end"]
    IN  CASE fail = "serialize_map" ->
                [calls |-> <<open>>, result |-> custom("serialize_map")]
          [] fail = "serialize_entry" ->
                [calls |-> <<open, entry>>, result |-> custom("serialize_entry")]
          [] fail = "end" ->
                [calls |-> <<open, entry, end>>, result |-> custom("end")]
          [] fail = "none" ->
                [calls |-> <<open, entry, end>>, result |-> Ok("map")]

\* Serialize for TaggedValue: the calls made on the serializer, in order, and
\* the value returned; each `?` returns the failure at once
serialize(self, fail) ==
    LET open == [call |-> "serialize_map", len |-> Some(1)]
        entry == [call |-> "serialize_entry",
                  key |-> <<Bang>> \o nobang(self.tag.string),
                  value |-> self.value]
        end == [call |-> "end"]
    IN  CASE fail = "serialize_map" ->
                [calls |-> <<open>>, result |-> custom("serialize_map")]
          [] fail = "serialize_entry" ->
                [calls |-> <<open, entry>>, result |-> custom("serialize_entry")]
          [] fail = "end" ->
                [calls |-> <<open, entry, end>>, result |-> custom("end")]
          [] fail = "none" ->
                [calls |-> <<open, entry, end>>, result |-> Ok("map")]

\* ------------------------------------------------------------ Deserialize
\* the entries a run of serialize wrote to the sink
WrittenEntries(calls) ==
    SelectSeq(calls, LAMBDA c : c.call = "serialize_entry")

\* How the value model's own deserializer answers a request over a written
\* document: a one-entry mapping is a tagged value, handed to the visitor
\* as an enum through the owned or the borrowed EnumAccess adapter.
value_deserializer_answer(entries, impl) ==
    IF Len(entries) = 1
    THEN [visit |-> "visit_enum",
          data |-> [impl |-> impl,
                    tagged |-> TaggedValue(Tag_new(entries[1].key),
                                           entries[1].value)]]
    ELSE [visit |-> "visit_map"]

\* EnumAccess of a deserializer that is not the value model's: each step
\* succeeds or fails as that deserializer decides
ForeignContents ==
    {[impl |-> "foreign", newtype |-> custom("newtype")]}
    \cup {[impl |-> "foreign", newtype |-> Ok(v)] : v \in BaseValues}

ForeignEnums ==
    {[impl |-> "foreign", variant |-> custom("variant")]}
    \cup {[impl |-> "foreign", variant |-> Ok(<<str, c>>)] :
            str \in {<<LetterT>>, <<Bang, LetterT>>}, c \in ForeignContents}

\* the answers a deserializer can give to the entry point's request
ForeignAnswers ==
    {[visit |-> v] : v \in {"visit_str", "visit_seq", "visit_map", "visit_unit"}}
    \cup {[visit |-> "visit_enum", data |-> e] : e \in ForeignEnums}

\* EnumAccess::variant_seed of whichever EnumAccess the deserializer passed
EnumAccess_variant(data, seed) ==
    CASE data.impl = "TaggedValue" -> variant_seed(data.tagged, seed)
      [] data.impl = "&TaggedValue" -> variant_seed_ref(data.tagged, seed)
      [] data.impl = "foreign" -> data.variant

\* VariantAccess::newtype_variant_seed of the matching VariantAccess
VariantAccess_newtype_variant(contents, seed) ==
    CASE contents.impl = "Value" -> newtype_variant_seed(contents.value, seed)
      [] contents.impl = "&Value" -> newtype_variant_seed_ref(contents.value, seed)
      [] contents.impl = "foreign" -> contents.newtype

\* visit_enum, had it put the marker back in front of the discriminator
visit_enum_banged(data) ==
    LET variant == EnumAccess_variant(data, "String")
    IN  IF ~variant.ok THEN variant
        ELSE LET tag == Tag_new(<<Bang>> \o variant.val[1])
                 value == VariantAccess_newtype_variant(variant.val[2], "Value")
             IN  IF ~value.ok THEN value
                 ELSE Ok(TaggedValue(tag, value.val))

\* TaggedValueVisitor::visit_enum
visit_enum(data) ==
    LET variant == EnumAccess_variant(data, "String")
    IN  IF ~variant.ok THEN variant
        ELSE LET tag == Tag_new(variant.val[1])
                 value == VariantAccess_newtype_variant(variant.val[2], "Value")
             IN  IF ~value.ok THEN value
                 ELSE Ok(TaggedValue(tag, value.val))

\* TaggedValueVisitor: expecting, visit_enum and the default of every other
\* visit method (an invalid-type error naming what was visited)
Expecting == "a YAML value with a !Tag"

VisitedShape(visit) ==
    CASE visit = "visit_str" -> "Str"
      [] visit = "visit_seq" -> "Seq"
      [] visit = "visit_map" -> "Map"
      [] visit = "visit_unit" -> "Unit"

TaggedValueVisitor(answer) ==
    IF answer.visit = "visit_enum" THEN visit_enum(answer.data)
    ELSE invalid_type(VisitedShape(answer.visit), Expecting)

\* the method of Deserializer the entry point calls
DeserializeRequest == "deserialize_any"

\* Deserialize for TaggedValue
deserialize(answer) ==
    [request |-> DeserializeRequest, result |-> TaggedValueVisitor(answer)]

\* ---------------------------------------------------------------- untag
\* untag, had it been `if let` instead of `while let`
untag_step_once(cur) ==
    IF cur.kind = "Tagged" THEN [done |-> TRUE, cur |-> cur.value]
    ELSE [done |-> TRUE, cur |-> cur]

\* one evaluation of `while let Value::Tagged(tagged) = cur` in untag: the
\* cursor owns the value
untag_step(cur) ==
    IF cur.kind = "Tagged" THEN [done |-> FALSE, cur |-> cur.value]
    ELSE [done |-> TRUE, cur |-> cur]

\* the same in untag_ref: the cursor is a reference `at` layers into root
untag_ref_step(root, at) ==
    IF Deref(root, at).kind = "Tagged" THEN [done |-> FALSE, cur |-> at + 1]
    ELSE [done |-> TRUE, cur |-> at]

\* the same in untag_mut: the cursor is a mutable reference, nothing is
\* written through it
untag_mut_step(root, at) ==
    IF Deref(root, at).kind = "Tagged" THEN [done |-> FALSE, cur |-> at + 1]
    ELSE [done |-> TRUE, cur |-> at]

\* ------------------------------------------------------------------ state
VARIABLES
    tagged,   \* the TaggedValue the operations are applied to
    pc,       \* "idle", or the operation that ran last / is running
    ret,      \* what the last operation returned
    sink,     \* the calls serialize made on the serializer
    cur       \* the cursor of a running untag loop

vars == <<tagged, pc, ret, sink, cur>>

\* the lengths and field lists a consumer may pass to tuple_variant and
\* struct_variant
Lens == 0..2

FieldLists == {<<>>, <<"k">>}

Init ==
    /\ tagged \in {TaggedValue(Tag_new(s), v) : s \in Strings, v \in Values}
    /\ pc = "idle"
    /\ ret = [op |-> "none"]
    /\ sink = <<>>
    /\ cur = [mode |-> "none"]

\* ------------------------------------------------------------ Tag actions
TagNew ==
    \E string \in Strings :
        /\ pc = "idle"
        /\ pc' = "new"
        /\ ret' = [op |-> "new", string |-> string, result |-> Tag_new(string)]
        /\ UNCHANGED <<tagged, sink, cur>>

TagEq ==
    \E other \in Strings :
        /\ pc = "idle"
        /\ pc' = "eq"
        /\ ret' = [op |-> "eq", other |-> other,
                   result |-> Tag_eq(tagged.tag, Tag_new(other))]
        /\ UNCHANGED <<tagged, sink, cur>>

TagEqStr ==
    \E other \in Strings :
        /\ pc = "idle"
        /\ pc' = "eq_str"
        /\ ret' = [op |-> "eq_str", other |-> other,
                   result |-> Tag_eq_str(tagged.tag, other)]
        /\ UNCHANGED <<tagged, sink, cur>>

TagCmp ==
    \E other \in Strings :
        /\ pc = "idle"
        /\ pc' = "cmp"
        /\ ret' = [op |-> "cmp", other |-> other,
                   result |-> Tag_cmp(tagged.tag, Tag_new(other))]
        /\ UNCHANGED <<tagged, sink, cur>>

TagPartialCmp ==
    \E other \in Strings :
        /\ pc = "idle"
        /\ pc' = "partial_cmp"
        /\ ret' = [op |-> "partial_cmp", other |-> other,
                   result |-> Tag_partial_cmp(tagged.tag, Tag_new(other))]
        /\ UNCHANGED <<tagged, sink, cur>>

\* both tags are hashed, each into a hasher of its own
TagHash ==
    \E other \in Strings :
        /\ pc = "idle"
        /\ pc' = "hash"
        /\ ret' = [op |-> "hash", other |-> other,
                   fed |-> Tag_hash(tagged.tag),
                   other_fed |-> Tag_hash(Tag_new(other))]
        /\ UNCHANGED <<tagged, sink, cur>>

\* both tags are rendered with {:?}
TagFmt ==
    \E other \in Strings :
        /\ pc = "idle"
        /\ pc' = "fmt"
        /\ ret' = [op |-> "fmt", other |-> other,
                   text |-> Tag_fmt(tagged.tag),
                   other_text |-> Tag_fmt(Tag_new(other))]
        /\ UNCHANGED <<tagged, sink, cur>>

\* ---------------------------------------------------------- untag actions
\* Value::untag(tagged.value): `let mut cur = self`
Untag ==
    /\ pc = "idle"
    /\ pc' = "untag"
    /\ cur' = [mode |-> "untag", pass |-> 1, pos |-> tagged.value]
    /\ UNCHANGED <<tagged, ret, sink>>

UntagLoop ==
    /\ pc = "untag"
    /\ cur.mode = "untag"
    /\ LET step == untag_step(cur.pos)
       IN  IF step.done
           THEN /\ pc' = "untag_done"
                /\ ret' = [op |-> "untag", pass |-> cur.pass, result |-> step.cur]
                /\ UNCHANGED cur
           ELSE /\ cur' = [cur EXCEPT !.pos = step.cur]
                /\ UNCHANGED <<pc, ret>>
    /\ UNCHANGED <<tagged, sink>>

\* Value::untag_ref(&tagged.value)
UntagRef ==
    /\ pc = "idle"
    /\ pc' = "untag"
    /\ cur' = [mode |-> "untag_ref", pass |-> 1, pos |-> 0]
    /\ UNCHANGED <<tagged, ret, sink>>

UntagRefLoop ==
    /\ pc = "untag"
    /\ cur.mode = "untag_ref"
    /\ LET step == untag_ref_step(tagged.value, cur.pos)
       IN  IF step.done
           THEN /\ pc' = "untag_done"
                /\ ret' = [op |-> "untag_ref", pass |-> cur.pass, result |-> step.cur]
                /\ UNCHANGED cur
           ELSE /\ cur' = [cur EXCEPT !.pos = step.cur]
                /\ UNCHANGED <<pc, ret>>
    /\ UNCHANGED <<tagged, sink>>

\* Value::untag_mut(&mut tagged.value)
UntagMut ==
    /\ pc = "idle"
    /\ pc' = "untag"
    /\ cur' = [mode |-> "untag_mut", pass |-> 1, pos |-> 0]
    /\ UNCHANGED <<tagged, ret, sink>>

UntagMutLoop ==
    /\ pc = "untag"
    /\ cur.mode = "untag_mut"
    /\ LET step == untag_mut_step(tagged.value, cur.pos)
       IN  IF step.done
           THEN /\ pc' = "untag_done"
                /\ ret' = [op |-> "untag_mut", pass |-> cur.pass, result |-> step.cur]
                /\ UNCHANGED cur
           ELSE /\ cur' = [cur EXCEPT !.pos = step.cur]
                /\ UNCHANGED <<pc, ret>>
    /\ UNCHANGED <<tagged, sink>>

\* the same untag function applied once more, to what the first call returned
UntagAgain ==
    /\ pc = "untag_done"
    /\ ret.pass = 1
    /\ pc' = "untag"
    /\ cur' = [mode |-> ret.op, pass |-> 2, pos |-> ret.result]
    /\ UNCHANGED <<tagged, ret, sink>>

\* -------------------------------------------------- (de)serialize actions
Serialize ==
    \E fail \in FailPoints :
        LET run == serialize(tagged, fail)
        IN  /\ pc = "idle"
            /\ pc' = "serialize"
            /\ sink' = run.calls
            /\ ret' = [op |-> "serialize", result |-> run.result]
            /\ UNCHANGED <<tagged, cur>>

\* TaggedValue::deserialize over what serialize wrote
Deserialize ==
    \E impl \in {"TaggedValue", "&TaggedValue"} :
        LET answer == value_deserializer_answer(WrittenEntries(sink), impl)
            run == deserialize(answer)
        IN  /\ pc = "serialize"
            /\ ret.result.ok
            /\ pc' = "deserialize"
            /\ ret' = [op |-> "deserialize", impl |-> impl, answer |-> answer,
                       request |-> run.request, result |-> run.result]
            /\ UNCHANGED <<tagged, sink, cur>>

\* TaggedValue::deserialize over any other deserializer
DeserializeForeign ==
    \E answer \in ForeignAnswers :
        LET run == deserialize(answer)
        IN  /\ pc = "idle"
            /\ pc' = "deserialize_foreign"
            /\ ret' = [op |-> "deserialize_foreign", answer |-> answer,
                       request |-> run.request, result |-> run.result]
            /\ UNCHANGED <<tagged, sink, cur>>

\* --------------------------------------------------- enum access actions
VariantSeed ==
    \E seed \in Seeds :
        /\ pc = "idle"
        /\ pc' = "variant_seed"
        /\ ret' = [op |-> "variant_seed", impl |-> "TaggedValue", seed |-> seed,
                   result |-> variant_seed(tagged, seed)]
        /\ UNCHANGED <<tagged, sink, cur>>

VariantSeedRef ==
    \E seed \in Seeds :
        /\ pc = "idle"
        /\ pc' = "variant_seed"
        /\ ret' = [op |-> "variant_seed", impl |-> "&TaggedValue", seed |-> seed,
                   result |-> variant_seed_ref(tagged, seed)]
        /\ UNCHANGED <<tagged, sink, cur>>

\* the variant handle a successful variant_seed returned
HasVariant(impl) ==
    /\ pc = "variant_seed"
    /\ ret.result.ok
    /\ ret.result.val[2].impl = impl

Variant == ret.result.val[2].value

NewtypeVariantSeed ==
    \E seed \in Seeds :
        /\ HasVariant("Value")
        /\ pc' = "newtype_variant_seed"
        /\ ret' = [op |-> "newtype_variant_seed", impl |-> "Value", seed |-> seed,
                   self |-> Variant,
                   result |-> newtype_variant_seed(Variant, seed)]
        /\ UNCHANGED <<tagged, sink, cur>>

TupleVariant ==
    \E len \in Lens :
        /\ HasVariant("Value")
        /\ pc' = "tuple_variant"
        /\ ret' = [op |-> "tuple_variant", impl |-> "Value", len |-> len,
                   self |-> Variant, result |-> tuple_variant(Variant, len)]
        /\ UNCHANGED <<tagged, sink, cur>>

StructVariant ==
    \E fields \in FieldLists :
        /\ HasVariant("Value")
        /\ pc' = "struct_variant"
        /\ ret' = [op |-> "struct_variant", impl |-> "Value", fields |-> fields,
                   self |-> Variant, result |-> struct_variant(Variant, fields)]
        /\ UNCHANGED <<tagged, sink, cur>>

NewtypeVariantSeedRef ==
    \E seed \in Seeds :
        /\ HasVariant("&Value")
        /\ pc' = "newtype_variant_seed"
        /\ ret' = [op |-> "newtype_variant_seed", impl |-> "&Value", seed |-> seed,
                   self |-> Variant,
                   result |-> newtype_variant_seed_ref(Variant, seed)]
        /\ UNCHANGED <<tagged, sink, cur>>

TupleVariantRef ==
    \E len \in Lens :
        /\ HasVariant("&Value")
        /\ pc' = "tuple_variant"
        /\ ret' = [op |-> "tuple_variant", impl |-> "&Value", len |-> len,
                   self |-> Variant, result |-> tuple_variant_ref(Variant, len)]
        /\ UNCHANGED <<tagged, sink, cur>>

StructVariantRef ==
    \E fields \in FieldLists :
        /\ HasVariant("&Value")
        /\ pc' = "struct_variant"
        /\ ret' = [op |-> "struct_variant", impl |-> "&Value", fields |-> fields,
                   self |-> Variant, result |-> struct_variant_ref(Variant, fields)]
        /\ UNCHANGED <<tagged, sink, cur>>

Next ==
    \/ TagNew \/ TagEq \/ TagEqStr \/ TagCmp \/ TagPartialCmp \/ TagHash \/ TagFmt
    \/ Untag \/ UntagLoop \/ UntagRef \/ UntagRefLoop \/ UntagMut \/ UntagMutLoop
    \/ UntagAgain
    \/ Serialize \/ Deserialize \/ DeserializeForeign
    \/ VariantSeed \/ VariantSeedRef
    \/ NewtypeVariantSeed \/ TupleVariant \/ StructVariant
    \/ NewtypeVariantSeedRef \/ TupleVariantRef \/ StructVariantRef

Spec == Init /\ [][Next]_vars

\* ============================================================== properties
\* the string the tag of `tagged` holds
Self == tagged.tag.string

StartsWithBang(s) == Len(s) > 0 /\ s[1] = Bang

\* the marker-stripped payload of a string: one leading '!' removed, if any
Payload(s) == IF StartsWithBang(s) THEN SubSeq(s, 2, Len(s)) ELSE s

\* "Thing" and "!Thing", shortened to the one payload character of the model
Thing == <<LetterT>>

BangThing == <<Bang, LetterT>>

\* ---------------------------------------------------------------------- C1
\* C1 as stated: for every string s, Tag::new(s) == Tag::new("!" + s) and
\* Tag::new("!" + s) == Tag::new(s), also when s itself begins with '!'.
C1_MarkerInsensitiveForAll ==
    pc = "eq" /\ (ret.other = <<Bang>> \o Self \/ Self = <<Bang>> \o ret.other)
        => ret.result = TRUE

\* C1 amended: Tag::new(s) == Tag::new("!" + s), in both directions, for
\* every string s that does not begin with '!' (the empty string included);
\* when s begins with '!' the two tags are unequal, in both directions.
C1_MarkerInsensitiveOnce ==
    pc = "eq" =>
        /\ ret.other = <<Bang>> \o Self => (ret.result <=> ~StartsWithBang(Self))
        /\ Self = <<Bang>> \o ret.other => (ret.result <=> ~StartsWithBang(ret.other))

C1_Witness ==
    /\ pc = "eq"
    /\ Self = Thing
    /\ ret.other = BangThing
    /\ ret.result = TRUE

\* ---------------------------------------------------------------------- C2
Reverse(ordering) ==
    CASE ordering = "Less" -> "Greater"
      [] ordering = "Greater" -> "Less"
      [] ordering = "Equal" -> "Equal"

\* C2: equality, ordering and hashing of tags agree: a == b iff cmp(a, b) is
\* Equal iff the marker-stripped payloads are equal; partial_cmp(a, b) is
\* Some(cmp(a, b)); equal tags feed the hasher the same input; cmp is
\* antisymmetric, transitive and total.
C2_EqOrdHashConsistent ==
    LET a == tagged.tag
        b == Tag_new(ret.other)
        same == Payload(Self) = Payload(ret.other)
    IN  /\ pc = "eq" => (ret.result <=> same) /\ (ret.result <=> Tag_cmp(a, b) = "Equal")
        /\ pc = "cmp" =>
              /\ ret.result \in {"Less", "Equal", "Greater"}
              /\ (ret.result = "Equal") <=> same
              /\ (ret.result = "Equal") <=> Tag_eq(a, b)
              /\ ret.result = Reverse(Tag_cmp(b, a))
              /\ \A s \in Strings :
                    ret.result # "Greater" /\ Tag_cmp(b, Tag_new(s)) # "Greater"
                        => Tag_cmp(a, Tag_new(s)) # "Greater"
        /\ pc = "partial_cmp" => ret.result = Some(Tag_cmp(a, b))
        /\ pc = "hash" /\ Tag_eq(a, b) => ret.fed = ret.other_fed

C2_Witness ==
    /\ pc = "cmp"
    /\ Self = BangThing
    /\ ret.other = Thing
    /\ ret.result = "Equal"

CallsNamed(name) == SelectSeq(sink, LAMBDA c : c.call = name)

\* C4: serialize opens a mapping declared with one entry, writes one entry
\* whose key is "!" followed by the marker-stripped tag and whose value is
\* the inner value, then ends the mapping; a failure of serialize_map or of
\* serialize_entry is returned without ending the mapping.
C4_SerializeOneEntry ==
    pc = "serialize" =>
        LET entry == [call |-> "serialize_entry",
                      key |-> <<Bang>> \o Payload(Self),
                      value |-> tagged.value]
        IN  /\ Len(sink) >= 1
            /\ sink[1] = [call |-> "serialize_map", len |-> Some(1)]
            /\ Len(CallsNamed("serialize_map")) = 1
            /\ Len(CallsNamed("serialize_entry")) <= 1
            /\ Len(sink) >= 2 => sink[2] = entry
            /\ Len(sink) >= 3 => sink[3] = [call |-> "end"] /\ Len(sink) = 3
            /\ ret.result.ok => Len(sink) = 3
            /\ ~ret.result.ok /\ ret.result.err.msg \in {"serialize_map", "serialize_entry"}
                  => Len(CallsNamed("end")) = 0

C4_Witness ==
    /\ pc = "serialize"
    /\ ret.result.ok
    /\ Self = BangThing
    /\ sink[2].key = BangThing
    /\ tagged.value = MapKV

\* ---------------------------------------------------------------------- C5
\* the value an untag cursor or result stands for
Target(mode, pos) == IF mode = "untag" THEN pos ELSE Deref(tagged.value, pos)

UntagResult ==
    \A b \in BaseValues, n \in 0..MaxDepth :
        pc = "untag_done" /\ tagged.value = Wrap(b, n) =>
            /\ Target(ret.op, ret.result) = b
            /\ Target(ret.op, ret.result).kind # "Tagged"
            /\ ret.op # "untag" => ret.result = n

UntagProgress ==
    /\ tagged' = tagged
    /\ pc = "untag" =>
          \/ pc' = "untag_done"
          \/ /\ pc' = "untag"
             /\ NestDepth(Target(cur'.mode, cur'.pos))
                    < NestDepth(Target(cur.mode, cur.pos))

\* C5: untag, untag_ref and untag_mut applied to a base value B under N
\* TaggedValue layers return exactly B (the reference modes: the B stored
\* innermost, the chain untouched), applied again to that result return B
\* again, never return a tagged value, and every turn of their loop removes
\* one layer, so the loop ends after N turns.
C5_UntagTerminatesIdempotent == []UntagResult /\ [][UntagProgress]_vars

C5_Witness ==
    /\ pc = "untag_done"
    /\ ret.pass = 2
    /\ ret.op = "untag_mut"
    /\ NestDepth(tagged.value) = MaxDepth
    /\ Deref(tagged.value, ret.result) = SeqFirst

\* ---------------------------------------------------------------------- C6
\* what a tuple_variant / struct_variant call came to, the adapter's name
\* (owned or borrowed) left out
Outcome(r) ==
    IF r.delegated THEN [delegated |-> TRUE, data |-> r.data]
    ELSE [delegated |-> FALSE, result |-> r.result]

\* C6: tuple_variant delegates to the sequence adapter iff the inner value
\* is directly a sequence and otherwise fails with invalid_type(shape,
\* "tuple variant"); struct_variant likewise with a mapping and "struct
\* variant"; the length / field list never matters; owned and borrowed agree.
C6_VariantShapes ==
    /\ pc = "tuple_variant" =>
          LET v == ret.self
          IN  /\ v = tagged.value
              /\ ret.result.delegated <=> v.kind = "Sequence"
              /\ v.kind = "Sequence" =>
                    /\ ret.result.data = v.seq
                    /\ ret.result.to = IF ret.impl = "Value" THEN "SeqDeserializer"
                                       ELSE "SeqRefDeserializer"
              /\ v.kind # "Sequence" =>
                    ret.result.result = invalid_type(unexpected(v), "tuple variant")
              /\ \A len \in Lens :
                    /\ Outcome(tuple_variant(v, len)) = Outcome(ret.result)
                    /\ Outcome(tuple_variant_ref(v, len)) = Outcome(ret.result)
    /\ pc = "struct_variant" =>
          LET v == ret.self
          IN  /\ v = tagged.value
              /\ ret.result.delegated <=> v.kind = "Mapping"
              /\ v.kind = "Mapping" =>
                    /\ ret.result.data = v.map
                    /\ ret.result.to = IF ret.impl = "Value" THEN "MapDeserializer"
                                       ELSE "MapRefDeserializer"
              /\ v.kind # "Mapping" =>
                    ret.result.result = invalid_type(unexpected(v), "struct variant")
              /\ \A fields \in FieldLists :
                    /\ Outcome(struct_variant(v, fields)) = Outcome(ret.result)
                    /\ Outcome(struct_variant_ref(v, fields)) = Outcome(ret.result)

C6_Witness ==
    /\ pc = "tuple_variant"
    /\ ret.impl = "&Value"
    /\ ret.self = Wrap(SeqFirst, 1)
    /\ ~ret.result.delegated
    /\ ret.result.result.err.expected = "tuple variant"

\* ---------------------------------------------------------------------- C7
Deserialized == pc \in {"deserialize", "deserialize_foreign"}

\* what visit_enum must come to over a foreign EnumAccess
ForeignOutcome(data) ==
    IF ~data.variant.ok THEN data.variant
    ELSE IF ~data.variant.val[2].newtype.ok THEN data.variant.val[2].newtype
    ELSE Ok([tag |-> [string |-> data.variant.val[1]],
             value |-> data.variant.val[2].newtype.val])

DeserializeOutcome ==
    /\ ret.answer.visit # "visit_enum" =>
          /\ ~ret.result.ok
          /\ ret.result.err.kind = "invalid_type"
          /\ ret.result.err.expected = Expecting
    /\ pc = "deserialize_foreign" /\ ret.answer.visit = "visit_enum" =>
          ret.result = ForeignOutcome(ret.answer.data)
    /\ pc = "deserialize" =>
          ret.result = Ok([tag |-> [string |-> Payload(sink[2].key)],
                           value |-> sink[2].value])

\* C7 as stated: TaggedValue::deserialize requests the "enum" mode of the
\* deserializer; an enum answer becomes TaggedValue{tag, value}; any other
\* answer, or a failing step, becomes an error.
C7_RequestsEnumMode ==
    Deserialized => ret.request = "deserialize_enum" /\ DeserializeOutcome

\* C7 amended: TaggedValue::deserialize makes the self-describing request
\* (deserialize_any) with a visitor that accepts only an enum answer; an enum
\* answer becomes TaggedValue{tag, value}; any other answer, or a failing
\* step, becomes an error.
C7_RequestsAnyMode ==
    Deserialized => ret.request = "deserialize_any" /\ DeserializeOutcome

C7_Witness ==
    /\ pc = "deserialize_foreign"
    /\ ret.answer.visit = "visit_enum"
    /\ ret.request = "deserialize_any"
    /\ ret.result.ok
    /\ ret.result.val.tag.string = BangThing
    /\ ret.result.val.value = SeqFirst

\* ---------------------------------------------------------------------- C8
\* C8: variant_seed hands the seed the marker-stripped tag as a plain
\* string and returns the seed's result with the inner value unchanged (owned
\* or by reference); a failing seed's error is returned as it is;
\* newtype_variant_seed hands that inner value to the seed whatever its shape
\* and fails only if the seed does.
C8_VariantSeed ==
    /\ pc = "variant_seed" =>
          LET owned == ret.impl = "TaggedValue"
              handed == [de |-> IF owned THEN "StrDeserializer"
                                ELSE "BorrowedStrDeserializer",
                         str |-> Payload(Self)]
              handle == [impl |-> IF owned THEN "Value" ELSE "&Value",
                         value |-> tagged.value]
              seeded == seed_deserialize(ret.seed, handed)
          IN  /\ ret.seed = "echo" => ret.result = Ok(<<handed, handle>>)
              /\ ret.seed = "reject" => ret.result = custom("seed")
              /\ seeded.ok => ret.result = Ok(<<seeded.val, handle>>)
              /\ ~seeded.ok => ret.result = seeded
    /\ pc = "newtype_variant_seed" =>
          LET handed == [de |-> ret.impl, value |-> tagged.value]
          IN  /\ ret.self = tagged.value
              /\ ret.seed = "echo" => ret.result = Ok(handed)
              /\ ret.result = seed_deserialize(ret.seed, handed)

C8_Witness ==
    /\ pc = "variant_seed"
    /\ ret.impl = "&TaggedValue"
    /\ ret.seed = "echo"
    /\ Self = BangThing
    /\ ret.result.ok
    /\ ret.result.val[1].str = Thing
    /\ ret.result.val[2].value = tagged.value

\* ---------------------------------------------------------------------- C9
\* C9: Debug of a Tag is "!" followed by the marker-stripped stored string,
\* so Tag::new("Thing") and Tag::new("!Thing") both render as !Thing and
\* equal tags render identically.
C9_DebugOneMarker ==
    pc = "fmt" =>
        /\ ret.text = <<Bang>> \o Payload(Self)
        /\ ret.other_text = <<Bang>> \o Payload(ret.other)
        /\ Self \in {Thing, BangThing} => ret.text = BangThing
        /\ Tag_eq(tagged.tag, Tag_new(ret.other)) => ret.text = ret.other_text

C9_Witness ==
    /\ pc = "fmt"
    /\ Self = Thing
    /\ ret.other = BangThing
    /\ ret.text = BangThing
    /\ ret.other_text = BangThing

\* --------------------------------------------------------------------- C10
\* what C10 says of every operation but the "!!" example: Tag::new stores
\* its input as given; comparison with a tag or a string, hashing, Debug,
\* serialization and variant_seed use the stored string less at most one
\* leading '!'; comparing with a string s gives what comparing with
\* Tag::new(s) gives
StripsOneEverywhere ==
    /\ pc = "new" => ret.result.string = ret.string
    /\ pc \in {"eq", "eq_str"} => (ret.result <=> Payload(Self) = Payload(ret.other))
    /\ pc = "eq_str" => ret.result = Tag_eq(tagged.tag, Tag_new(ret.other))
    /\ pc = "cmp" => ret.result = str_cmp(Payload(Self), Payload(ret.other))
    /\ pc = "hash" => ret.fed = Payload(Self) \o <<255>>
    /\ pc = "fmt" => ret.text = <<Bang>> \o Payload(Self)
    /\ pc = "serialize" /\ Len(sink) >= 2 => sink[2].key = <<Bang>> \o Payload(Self)
    /\ pc = "variant_seed" /\ ret.seed = "String" =>
          ret.result.ok /\ ret.result.val[1] = Payload(Self)

\* C10 as stated: StripsOneEverywhere, and a tag built from "!!" + p (p not
\* starting with '!') equals the tag or string "!" + p and differs from p.
C10_DoubleBangEqualsSingle ==
    /\ StripsOneEverywhere
    /\ pc \in {"eq", "eq_str"} =>
          \A p \in Strings :
              ~StartsWithBang(p) /\ Self = <<Bang, Bang>> \o p =>
                  /\ ret.other = <<Bang>> \o p => ret.result = TRUE
                  /\ ret.other = p => ret.result = FALSE

\* C10 amended: StripsOneEverywhere, and a tag built from "!!" + p (p not
\* starting with '!') equals the tag or string "!!" + p and differs both
\* from "!" + p and from p.
C10_StripsAtMostOne ==
    /\ StripsOneEverywhere
    /\ pc \in {"eq", "eq_str"} =>
          \A p \in Strings :
              ~StartsWithBang(p) /\ Self = <<Bang, Bang>> \o p =>
                  /\ ret.other = <<Bang, Bang>> \o p => ret.result = TRUE
                  /\ ret.other = <<Bang>> \o p => ret.result = FALSE
                  /\ ret.other = p => ret.result = FALSE

C10_Witness ==
    /\ pc = "eq_str"
    /\ Self = <<Bang, Bang, LetterT>>
    /\ ret.other = BangThing
    /\ ret.result = FALSE

====
